---- MODULE Spec2Model ----
\* Model of the three porting-status scripts under scripts/:
\*   analyze_porting_status.py        (map_python_to_csharp)
\*   extract-indoor-builder-tests.py  (extract_tests)
\*   generate-remaining-tests.py      (python_tests / ported / missing)
\* Strings that the code inspects character by character (module paths) are
\* sequences of one-character strings.  Source texts that the code scans with
\* line-anchored regular expressions are sequences of lines; a match offset is
\* the index of the line on which the match starts.
EXTENDS Integers, Sequences, FiniteSets

VARIABLES segs, python_path, map_result, map_pc,
          content, classes, tests, current_class_idx, test_i, result, ex_pc,
          python_content, csharp_content, python_tests, ported, missing,
          printed, gen_pc

mapVars == <<segs, python_path, map_result, map_pc>>
exVars == <<content, classes, tests, current_class_idx, test_i, result, ex_pc>>
genVars == <<python_content, csharp_content, python_tests, ported, missing,
             printed, gen_pc>>
vars == <<mapVars, exVars, genVars>>

\* ---------------------------------------------------------------- bounds
MaxSegs == 5
MaxLines == 4
MaxPyLines == 4
MaxCsLines == 2

\* ------------------------------------------------------ character strings
LowerChars == <<"a","b","c","d","e","f","g","h","i","j","k","l","m",
                "n","o","p","q","r","s","t","u","v","w","x","y","z">>
UpperChars == <<"A","B","C","D","E","F","G","H","I","J","K","L","M",
                "N","O","P","Q","R","S","T","U","V","W","X","Y","Z">>

islower(c) == \E i \in 1..26 : LowerChars[i] = c
isupper(c) == \E i \in 1..26 : UpperChars[i] = c
toupper(c) == IF islower(c)
              THEN UpperChars[CHOOSE i \in 1..26 : LowerChars[i] = c]
              ELSE c
tolower(c) == IF isupper(c)
              THEN LowerChars[CHOOSE i \in 1..26 : UpperChars[i] = c]
              ELSE c

\* str.upper()
upper(s) == [i \in 1..Len(s) |-> toupper(s[i])]

\* str.title(): a cased character is upper-cased when the character before it
\* is not cased, lower-cased otherwise.
RECURSIVE titleFrom(_, _, _)
titleFrom(s, i, prevCased) ==
    IF i > Len(s) THEN <<>>
    ELSE LET c == s[i]
             cased == islower(c) \/ isupper(c)
             out == IF ~cased THEN c
                    ELSE IF prevCased THEN tolower(c) ELSE toupper(c)
         IN <<out>> \o titleFrom(s, i + 1, cased)
title(s) == titleFrom(s, 1, FALSE)

\* str.startswith(prefix)
startswith(s, prefix) ==
    /\ Len(s) >= Len(prefix)
    /\ SubSeq(s, 1, Len(prefix)) = prefix

\* s[n:]
sliceFrom(s, n) == SubSeq(s, n + 1, Len(s))

\* str.split("."): the pieces between the separators, empty pieces included
RECURSIVE splitFrom(_, _, _)
splitFrom(s, i, cur) ==
    IF i > Len(s) THEN <<cur>>
    ELSE IF s[i] = "." THEN <<cur>> \o splitFrom(s, i + 1, <<>>)
    ELSE splitFrom(s, i + 1, Append(cur, s[i]))
split(s) == splitFrom(s, 1, <<>>)

\* ".".join(ps)
RECURSIVE join(_)
join(ps) ==
    IF Len(ps) = 0 THEN <<>>
    ELSE IF Len(ps) = 1 THEN ps[1]
    ELSE ps[1] \o <<".">> \o join(Tail(ps))

\* string literals of analyze_porting_status.py
PykotorDot == <<"p","y","k","o","t","o","r",".">>
UtilityDot == <<"u","t","i","l","i","t","y",".">>
UtilityOutDot == <<"U","t","i","l","i","t","y",".">>
ResourceLit == <<"r","e","s","o","u","r","c","e">>
FormatsLit == <<"f","o","r","m","a","t","s">>
FormatsOutDot == <<"F","o","r","m","a","t","s",".">>

\* outcome of a call: a returned string, or an exception raised
Returned(s) == [raised |-> FALSE, value |-> s]
IndexError == [raised |-> TRUE, value |-> <<>>]

\* ---------------------------------------------- map_python_to_csharp
\* variant: the formats rule title-cases the segments after the format name
map_parts_fmttitle(path) ==
    LET parts == split(path)
    IN IF Len(parts) > 1 /\ parts[1] = ResourceLit /\ parts[2] = FormatsLit
       THEN IF Len(parts) < 3 THEN IndexError
            ELSE LET format_name == upper(parts[3])
                 IN IF Len(parts) > 3
                    THEN Returned(FormatsOutDot \o format_name \o <<".">>
                           \o join([i \in 1..(Len(parts) - 3) |->
                                       title(parts[i + 3])]))
                    ELSE Returned(FormatsOutDot \o format_name)
       ELSE Returned(join([i \in 1..Len(parts) |-> title(parts[i])]))

\* the part of map_python_to_csharp after the prefix handling (lines 42-54):
\* parts[2] of the source is parts[3] here, and indexing it in a two-element
\* list raises IndexError
map_parts(path) ==
    LET parts == split(path)
    IN IF Len(parts) > 1 /\ parts[1] = ResourceLit /\ parts[2] = FormatsLit
       THEN IF Len(parts) < 3 THEN IndexError
            ELSE LET format_name == upper(parts[3])
                 IN IF Len(parts) > 3
                    THEN Returned(FormatsOutDot \o format_name \o <<".">>
                                  \o join(SubSeq(parts, 4, Len(parts))))
                    ELSE Returned(FormatsOutDot \o format_name)
       ELSE Returned(join([i \in 1..Len(parts) |-> title(parts[i])]))

\* variant: the root prefix is not stripped
map_python_to_csharp_nostrip(path) ==
    IF startswith(path, UtilityDot)
    THEN Returned(UtilityOutDot \o sliceFrom(path, 8))
    ELSE map_parts(path)

\* variant: the utility rule title-cases the remaining segments
map_python_to_csharp_utiltitle(path) ==
    IF startswith(path, PykotorDot) THEN map_parts(sliceFrom(path, 8))
    ELSE IF startswith(path, UtilityDot)
    THEN LET rest == split(sliceFrom(path, 8))
         IN Returned(UtilityOutDot
                     \o join([i \in 1..Len(rest) |-> title(rest[i])]))
    ELSE map_parts(path)

map_python_to_csharp(path) ==
    IF startswith(path, PykotorDot) THEN map_parts(sliceFrom(path, 8))
    ELSE IF startswith(path, UtilityDot)
    THEN Returned(UtilityOutDot \o sliceFrom(path, 8))
    ELSE map_parts(path)

\* segments a module path is built from (file and directory names)
Pykotor == <<"p","y","k","o","t","o","r">>
Utility == <<"u","t","i","l","i","t","y">>
UtilityOut == <<"U","t","i","l","i","t","y">>
FormatsOut == <<"F","o","r","m","a","t","s">>
SegSet == {Pykotor, Utility, ResourceLit, FormatsLit,
           <<"g","f","f">>, <<"i","o","_","X","y">>}

RECURSIVE SeqsUpTo(_, _)
SeqsUpTo(S, n) ==
    IF n = 0 THEN {<<>>}
    ELSE LET shorter == SeqsUpTo(S, n - 1)
         IN shorter \cup {Append(s, x) : s \in {q \in shorter : Len(q) = n - 1}, x \in S}

ModulePaths == SeqsUpTo(SegSet, MaxSegs) \ {<<>>}

\* get_pykotor_modules: the relative path with its separators replaced by "."
module_path(ps) == join(ps)

MapIdle ==
    /\ segs = <<>>
    /\ python_path = <<>>
    /\ map_result = Returned(<<>>)
    /\ map_pc = "idle"

ExIdle ==
    /\ content = <<>>
    /\ classes = <<>>
    /\ tests = <<>>
    /\ current_class_idx = 0
    /\ test_i = 0
    /\ result = <<>>
    /\ ex_pc = "idle"

GenIdle ==
    /\ python_content = <<>>
    /\ csharp_content = <<>>
    /\ python_tests = <<>>
    /\ ported = {}
    /\ missing = <<>>
    /\ printed = [total |-> 0, ported |-> 0, missing |-> 0]
    /\ gen_pc = "idle"

MapInit ==
    /\ segs \in ModulePaths
    /\ python_path = module_path(segs)
    /\ map_result = Returned(<<>>)
    /\ map_pc = "call"
    /\ ExIdle
    /\ GenIdle

\* one call of map_python_to_csharp on the module path
MapCall ==
    /\ map_pc = "call"
    /\ map_result' = map_python_to_csharp(python_path)
    /\ map_pc' = "done"
    /\ UNCHANGED <<segs, python_path, exVars, genVars>>

MapNext == MapCall

SpecMap == MapInit /\ [][MapNext]_vars

\* ------------------------------------------------ properties of the mapper
TitleAll(ps) == [i \in 1..Len(ps) |-> title(ps[i])]
Rooted(ps) == module_path(<<Pykotor>> \o ps)
\* the path with an optional leading root segment removed
Unrooted(ps) == IF Len(ps) > 1 /\ ps[1] = Pykotor THEN Tail(ps) ELSE ps
IsFormatsPath(ps) == Len(ps) >= 2 /\ ps[1] = ResourceLit /\ ps[2] = FormatsLit

\* C1: map_python_to_csharp never fails on a non-empty module path, and a
\* path matching no complete special case (in particular exactly
\* resource.formats, with or without the root) gets the generic title-cased
\* result.
C1_MapTotal ==
    map_pc = "done" =>
        /\ ~map_result.raised
        /\ (IsFormatsPath(Unrooted(segs)) /\ Len(Unrooted(segs)) = 2
              => map_result.value = join(TitleAll(Unrooted(segs))))

\* C7: a path whose first segment is utility maps to Utility followed by the
\* remaining segments unchanged.
C7_UtilityVerbatim ==
    (map_pc = "done" /\ segs[1] = Utility) =>
        map_result = Returned(join(<<UtilityOut>> \o Tail(segs)))

C7_Witness ==
    /\ map_pc = "done"
    /\ segs[1] = Utility
    /\ Len(segs) >= 3
    /\ segs[2] = ResourceLit
    /\ segs[3] # title(segs[3])
    /\ map_result = Returned(join(<<UtilityOut>> \o Tail(segs)))

\* C8: a path that, after an optional root segment, begins with
\* resource.formats and has a third segment maps to Formats, the third segment
\* upper-cased, then every further segment verbatim.
C8_FormatsRule ==
    (map_pc = "done" /\ IsFormatsPath(Unrooted(segs)) /\ Len(Unrooted(segs)) >= 3) =>
        LET u == Unrooted(segs)
        IN map_result = Returned(join(<<FormatsOut, upper(u[3])>>
                                      \o SubSeq(u, 4, Len(u))))

C8_Witness ==
    /\ map_pc = "done"
    /\ segs[1] = Pykotor
    /\ IsFormatsPath(Tail(segs))
    /\ Len(segs) = 5
    /\ segs[4] # upper(segs[4])
    /\ segs[5] # title(segs[5])
    /\ ~map_result.raised
    /\ map_result.value = join(<<FormatsOut, upper(segs[4]), segs[5]>>)

\* C10 as stated: map(root + P) equals map(P) for every P whose first segment
\* is not utility.
C10_RootTransparent ==
    (map_pc = "done" /\ segs[1] # Utility) =>
        map_python_to_csharp(Rooted(segs)) = map_result

\* C10 amended: with the root prefix in front, the root is stripped once and
\* only the formats rule and the generic rule see the remainder, so
\* pykotor.utility.x maps to the title-cased segments; map(root + P) has the
\* outcome of map(P) for every P whose first segment is neither utility nor
\* the root prefix itself.
C10_RootStrippedOnce ==
    map_pc = "done" =>
        LET r == map_python_to_csharp(Rooted(segs))
        IN /\ r = map_parts(module_path(segs))
           /\ (segs[1] = Utility => r = Returned(join(TitleAll(segs))))
           /\ (segs[1] \notin {Utility, Pykotor} => r = map_result)

C10_Witness ==
    /\ map_pc = "done"
    /\ Len(segs) = 2
    /\ segs[1] = Utility
    /\ segs[2] # title(segs[2])
    /\ map_result = Returned(join(<<UtilityOut, segs[2]>>))
    /\ map_python_to_csharp(Rooted(segs))
          = Returned(join(<<UtilityOut, title(segs[2])>>))

\* ------------------------------------------------------------ source texts
\* A line of a scanned text.  kind "class": a line `class <name>:` with a name
\* matching Test\w+; "def": an indented `def <name>(<text>):` with a name
\* matching test_\w+; "doc": an indented """<text>""" block; "blank": a
\* whitespace-only line; "marker": a line holding `// Original: def <name>(`;
\* "other": any line none of the patterns matches.
Line(kind, name, text) == [kind |-> kind, name |-> name, text |-> text]
ClassLine(name) == Line("class", name, "")
DefLine(name) == Line("def", name, "self")
DocLine(text) == Line("doc", "", text)
BlankLine == Line("blank", "", "")
OtherLine == Line("other", "", "")
MarkerLine(name) == Line("marker", name, "")

\* --------------------------------------------------------- extract_tests
\* re.finditer(r"^class (Test\w+):", content, re.MULTILINE): (start, name) of
\* every class line, in order of appearance
RECURSIVE find_classes_from(_, _)
find_classes_from(text, i) ==
    IF i > Len(text) THEN <<>>
    ELSE IF text[i].kind = "class"
    THEN <<[start |-> i, name |-> text[i].name]>> \o find_classes_from(text, i + 1)
    ELSE find_classes_from(text, i + 1)
find_classes(text) == find_classes_from(text, 1)

\* where a match of ^\s+def that reaches the def on line i starts: \s+ also
\* spans the whitespace-only lines directly before the def line
RECURSIVE blank_run_start(_, _)
blank_run_start(text, i) ==
    IF i > 1 /\ text[i - 1].kind = "blank" THEN blank_run_start(text, i - 1)
    ELSE i

\* variant: a def line directly after another def line is not matched
RECURSIVE find_tests_from_skip(_, _)
find_tests_from_skip(text, i) ==
    IF i > Len(text) THEN <<>>
    ELSE IF text[i].kind = "def" /\ (i = 1 \/ text[i - 1].kind # "def")
    THEN <<[start |-> blank_run_start(text, i), name |-> text[i].name,
            params |-> text[i].text]>> \o find_tests_from_skip(text, i + 1)
    ELSE find_tests_from_skip(text, i + 1)

\* re.finditer(r"^\s+def (test_\w+)\(([^)]*)\):", content, re.MULTILINE):
\* (start, name, params) of every test function line, in order of appearance
RECURSIVE find_tests_from(_, _)
find_tests_from(text, i) ==
    IF i > Len(text) THEN <<>>
    ELSE IF text[i].kind = "def"
    THEN <<[start |-> blank_run_start(text, i), name |-> text[i].name,
            params |-> text[i].text]>> \o find_tests_from(text, i + 1)
    ELSE find_tests_from(text, i + 1)
find_tests(text) == find_tests_from(text, 1)

\* variant: the cursor moves at most one class forward per test
advance_cursor_once(cls, idx, test_start) ==
    IF idx < Len(cls) - 1 /\ test_start > cls[idx + 2].start
    THEN idx + 1
    ELSE idx

\* the while loop of extract_tests; idx is the 0-based current_class_idx, so
\* classes[idx + 1] of the source is cls[idx + 2] here
RECURSIVE advance_cursor(_, _, _)
advance_cursor(cls, idx, test_start) ==
    IF idx < Len(cls) - 1 /\ test_start > cls[idx + 2].start
    THEN advance_cursor(cls, idx + 1, test_start)
    ELSE idx

\* classes[current_class_idx][1] if current_class_idx < len(classes) else "Unknown"
class_name_at(cls, idx) ==
    IF idx < Len(cls) THEN cls[idx + 1].name ELSE "Unknown"

ExLines == {ClassLine("TestA"), ClassLine("TestB"),
            DefLine("test_a"), DefLine("test_b"), BlankLine, OtherLine}

ExInit ==
    /\ content \in SeqsUpTo(ExLines, MaxLines)
    /\ classes = <<>>
    /\ tests = <<>>
    /\ current_class_idx = 0
    /\ test_i = 0
    /\ result = <<>>
    /\ ex_pc = "scan"
    /\ MapIdle
    /\ GenIdle

\* the two scans and the initialisation of the merge
ExScan ==
    /\ ex_pc = "scan"
    /\ classes' = find_classes(content)
    /\ tests' = find_tests(content)
    /\ result' = <<>>
    /\ current_class_idx' = 0
    /\ test_i' = 1
    /\ ex_pc' = "merge"
    /\ UNCHANGED <<content, mapVars, genVars>>

\* one iteration of `for test_start, test_name, test_params in tests`
ExMergeStep ==
    /\ ex_pc = "merge"
    /\ test_i <= Len(tests)
    /\ LET t == tests[test_i]
           idx == advance_cursor(classes, current_class_idx, t.start)
       IN /\ current_class_idx' = idx
          /\ result' = Append(result, [class_name |-> class_name_at(classes, idx),
                                       test_name |-> t.name,
                                       test_params |-> t.params])
    /\ test_i' = test_i + 1
    /\ UNCHANGED <<content, classes, tests, ex_pc, mapVars, genVars>>

\* return result
ExReturn ==
    /\ ex_pc = "merge"
    /\ test_i > Len(tests)
    /\ ex_pc' = "done"
    /\ UNCHANGED <<content, classes, tests, current_class_idx, test_i, result,
                   mapVars, genVars>>

ExNext == ExScan \/ ExMergeStep \/ ExReturn

SpecIndex == ExInit /\ [][ExNext]_vars

\* ----------------------------------------------- properties of the indexer
\* index of the last class marker whose offset does not exceed off (0: none)
LastClassAtOrBefore(off) ==
    LET S == {c \in 1..Len(classes) : classes[c].start <= off}
    IN IF S = {} THEN 0 ELSE CHOOSE c \in S : \A d \in S : d <= c

\* the lines of content that hold a test function, in increasing order
DefLineIdx == {i \in 1..Len(content) : content[i].kind = "def"}
NthDefLine(k) ==
    CHOOSE i \in DefLineIdx : Cardinality({j \in DefLineIdx : j < i}) = k - 1

\* C2: an entry's class name is "Unknown" exactly when the function's offset
\* precedes every recorded class offset.
C2_UnknownIffBeforeAllClasses ==
    ex_pc = "done" =>
        \A k \in 1..Len(result) :
            (result[k].class_name = "Unknown")
                <=> (\A c \in 1..Len(classes) : tests[k].start < classes[c].start)

\* C3: a function at or after the first class marker gets the name of the last
\* class marker whose offset is at most the function's offset.
C3_LastPrecedingClass ==
    ex_pc = "done" =>
        /\ Len(result) = Len(tests)
        /\ \A k \in 1..Len(result) :
              LastClassAtOrBefore(tests[k].start) > 0 =>
                  result[k].class_name
                      = classes[LastClassAtOrBefore(tests[k].start)].name

C3_Witness ==
    /\ ex_pc = "done"
    /\ Len(classes) >= 3
    /\ \E k \in 1..Len(result) :
          /\ LastClassAtOrBefore(tests[k].start) = 3
          /\ classes[3].name # classes[2].name
          /\ result[k].class_name = classes[3].name

\* C9: the result has one entry per test function of the text, in source
\* order, and the offsets behind consecutive entries do not decrease.
C9_OneEntryPerMatchInOrder ==
    ex_pc = "done" =>
        /\ Len(result) = Cardinality(DefLineIdx)
        /\ \A k \in 1..Len(result) :
              /\ result[k].test_name = content[NthDefLine(k)].name
              /\ result[k].test_params = content[NthDefLine(k)].text
              /\ tests[k].start <= NthDefLine(k)
        /\ \A k \in 1..(Len(result) - 1) : tests[k].start <= tests[k + 1].start

C9_Witness ==
    /\ ex_pc = "done"
    /\ Len(result) = 3
    /\ Len(classes) = 1
    /\ result[1].test_name # result[2].test_name
    /\ tests[1].start < classes[1].start
    /\ classes[1].start < tests[3].start

\* ------------------------------------------- generate-remaining-tests.py
\* first line after line i that is not whitespace-only (Len(text) + 1: none)
RECURSIVE skip_blank(_, _)
skip_blank(text, i) ==
    IF i <= Len(text) /\ text[i].kind = "blank" THEN skip_blank(text, i + 1)
    ELSE i

\* match.group(3).strip().split("\n")[0]
doc_first_line(block) ==
    CASE block = "  doc a\n  more  " -> "doc a"
      [] OTHER -> block

\* re.finditer over python_content with the pattern
\*   ^\s+def (test_\w+)\([^)]*\):\s*\n(\s+)"""([^"]*?)"""
\* a def line matches only when the next line that is not whitespace-only is a
\* doc block; the scan resumes after the block
RECURSIVE find_doc_tests_from(_, _)
find_doc_tests_from(text, i) ==
    IF i > Len(text) THEN <<>>
    ELSE IF text[i].kind = "def"
    THEN LET j == skip_blank(text, i + 1)
         IN IF j <= Len(text) /\ text[j].kind = "doc"
            THEN <<[name |-> text[i].name, doc |-> doc_first_line(text[j].text)]>>
                 \o find_doc_tests_from(text, j + 1)
            ELSE find_doc_tests_from(text, i + 1)
    ELSE find_doc_tests_from(text, i + 1)
find_doc_tests(text) == find_doc_tests_from(text, 1)

\* re.findall(r"// Original: def (test_\w+)\(", csharp_content)
RECURSIVE find_markers_from(_, _)
find_markers_from(text, i) ==
    IF i > Len(text) THEN <<>>
    ELSE IF text[i].kind = "marker"
    THEN <<text[i].name>> \o find_markers_from(text, i + 1)
    ELSE find_markers_from(text, i + 1)
find_markers(text) == find_markers_from(text, 1)

\* set(...)
set_of(found) == {found[i] : i \in 1..Len(found)}

\* variant: every marker occurrence is counted
ported_count_occurrences(found) == Len(found)

\* len(ported) for ported = set(re.findall(...))
ported_count(found) == Cardinality(set_of(found))

\* variant: a name already listed as missing is not listed again
RECURSIVE compute_missing_dedup(_, _)
compute_missing_dedup(entries, markers) ==
    IF entries = <<>> THEN <<>>
    ELSE LET init == SubSeq(entries, 1, Len(entries) - 1)
             e == entries[Len(entries)]
             acc == compute_missing_dedup(init, markers)
         IN IF e.name \notin markers /\ \A m \in 1..Len(acc) : acc[m].name # e.name
            THEN Append(acc, e)
            ELSE acc

\* [(name, doc) for name, doc in python_tests if name not in ported]
RECURSIVE compute_missing(_, _)
compute_missing(entries, markers) ==
    IF entries = <<>> THEN <<>>
    ELSE IF Head(entries).name \notin markers
    THEN <<Head(entries)>> \o compute_missing(Tail(entries), markers)
    ELSE compute_missing(Tail(entries), markers)

PyLines == {DefLine("test_a"), DefLine("test_b"), DocLine("  doc a\n  more  "),
            BlankLine, OtherLine}
CsLines == {MarkerLine("test_a"), MarkerLine("test_c"), OtherLine}

GenInit ==
    /\ python_content \in SeqsUpTo(PyLines, MaxPyLines)
    /\ csharp_content \in SeqsUpTo(CsLines, MaxCsLines)
    /\ python_tests = <<>>
    /\ ported = {}
    /\ missing = <<>>
    /\ printed = [total |-> 0, ported |-> 0, missing |-> 0]
    /\ gen_pc = "tests"
    /\ MapIdle
    /\ ExIdle

\* python_tests: all Python tests with their docstrings
GenScanPython ==
    /\ gen_pc = "tests"
    /\ python_tests' = find_doc_tests(python_content)
    /\ gen_pc' = "ported"
    /\ UNCHANGED <<python_content, csharp_content, ported, missing, printed,
                   mapVars, exVars>>

\* ported: the names recorded by the provenance markers
GenScanPorted ==
    /\ gen_pc = "ported"
    /\ ported' = set_of(find_markers(csharp_content))
    /\ gen_pc' = "missing"
    /\ UNCHANGED <<python_content, csharp_content, python_tests, missing,
                   printed, mapVars, exVars>>

\* missing, and the three counts printed
GenReport ==
    /\ gen_pc = "missing"
    /\ missing' = compute_missing(python_tests, ported)
    /\ printed' = [total |-> Len(python_tests),
                   ported |-> ported_count(find_markers(csharp_content)),
                   missing |-> Len(missing')]
    /\ gen_pc' = "done"
    /\ UNCHANGED <<python_content, csharp_content, python_tests, ported,
                   mapVars, exVars>>

GenNext == GenScanPython \/ GenScanPorted \/ GenReport

SpecDiff == GenInit /\ [][GenNext]_vars

\* ------------------------------------------ properties of the diff report
MarkerNames == {csharp_content[i].name :
                  i \in {j \in 1..Len(csharp_content) :
                           csharp_content[j].kind = "marker"}}
\* positions of the entries whose name no marker records
Unported == {k \in 1..Len(python_tests) : python_tests[k].name \notin MarkerNames}
Matched == {k \in 1..Len(python_tests) : python_tests[k].name \in MarkerNames}
NthUnported(m) ==
    CHOOSE k \in Unported : Cardinality({j \in Unported : j < k}) = m - 1

\* C4: every function declaration matching the test-function pattern yields
\* one origin test entry, with an empty doc field when no documentation block
\* follows, so the total equals the number of matching declarations.
C4_EveryDeclarationCounted ==
    gen_pc = "done" =>
        /\ printed.total = Len(find_tests(python_content))
        /\ \A k \in 1..Len(python_tests) :
              python_tests[k].name = find_tests(python_content)[k].name

\* C5: missing is the subsequence of the entries, in their order, whose name
\* is in no marker; its length is the number of entries minus the number of
\* entries whose name is in the marker set.
C5_MissingIsOrderedComplement ==
    gen_pc = "done" =>
        /\ Len(missing) = Len(python_tests) - Cardinality(Matched)
        /\ \A m \in 1..Len(missing) : missing[m] = python_tests[NthUnported(m)]
        /\ printed.missing = Len(missing)

C5_Witness ==
    /\ gen_pc = "done"
    /\ Len(python_tests) = 2
    /\ python_tests[1].name = python_tests[2].name
    /\ MarkerNames # {}
    /\ Len(missing) = 2

\* C6: the ported count is the size of the marker set: repeated markers count
\* once and markers naming no entry still count.
C6_PortedIsMarkerSetSize ==
    gen_pc = "done" =>
        /\ printed.ported = Cardinality(MarkerNames)
        /\ printed.ported = Cardinality(ported)

C6_Witness ==
    /\ gen_pc = "done"
    /\ Len(csharp_content) = 2
    /\ csharp_content[1].kind = "marker"
    /\ csharp_content[2] = csharp_content[1]
    /\ printed.ported = 1
    /\ Len(python_tests) = 1
    /\ Cardinality(Matched) = 0
    /\ printed.ported + Len(missing) # printed.total

====
